---- MODULE Spec2Model ----
(***************************************************************************)
(* Model of pkg/utils/helmrepo.go: building a helm repo index file from a  *)
(* set of chart directories (GenerateHelmIndexFile) and filtering it by    *)
(* the subscription's package name, version, tillerVersion and keywords    *)
(* (filterCharts, removeNoMatchingName, filterOnVersion, checkKeywords,    *)
(* checkTillerVersion, checkVersion).                                      *)
(*                                                                         *)
(* Go strings that are only compared for equality (package names, keyword  *)
(* names, map keys) are TLA+ strings.  Go strings that are parsed (chart   *)
(* versions, tiller versions, version ranges) are sequences of one-        *)
(* character strings, so that parsing is computed and not assumed.         *)
(***************************************************************************)
EXTENDS Integers, Sequences, FiniteSets, TLC

VARIABLES
    sub,        \* the subscription: sub.Spec.Package, sub.Spec.PackageFilter
    chartDirs,  \* GenerateHelmIndexFile: the chart directories not yet visited
    manifest,   \* what chartutil.LoadChartfile yields for each chart directory
    entries,    \* indexFile.Entries: chart name -> sequence of chart versions
    entries0,   \* indexFile.Entries as it was when filterCharts was first entered
    pc,         \* control position
    err,        \* the error GenerateHelmIndexFile returned
    nameErr,    \* what removeNoMatchingName returned to filterCharts
    loaded,     \* number of LoadChartfile calls made by the running build
    sorted,     \* number of indexFile.SortEntries calls made
    runs        \* number of filterCharts calls made

vars == <<sub, chartDirs, manifest, entries, entries0, pc, err, nameErr,
          loaded, sorted, runs>>

(***************************************************************************)
(* Optional values (Go nil pointers and nil maps).                         *)
(***************************************************************************)
Nil == <<>>
Some(x) == <<x>>
Get(o) == o[1]

(***************************************************************************)
(* Strings that get parsed.                                                *)
(***************************************************************************)
Digits == {"0", "1", "2", "3", "4", "5", "6", "7", "8", "9"}

DigitVal ==
    "0" :> 0 @@ "1" :> 1 @@ "2" :> 2 @@ "3" :> 3 @@ "4" :> 4 @@
    "5" :> 5 @@ "6" :> 6 @@ "7" :> 7 @@ "8" :> 8 @@ "9" :> 9

EmptyStr == <<>>

SetMin(S) == CHOOSE x \in S : \A y \in S : x <= y

\* strings.Index from position `from`: the first i >= from with s[i] = c, or 0
IndexFrom(s, c, from) ==
    LET I == {i \in from..Len(s) : s[i] = c}
    IN  IF I = {} THEN 0 ELSE SetMin(I)

\* strings.IndexAny(s, chars): the first i with s[i] in chars, or 0
IndexAny(s, chars) ==
    LET I == {i \in 1..Len(s) : s[i] \in chars}
    IN  IF I = {} THEN 0 ELSE SetMin(I)

Slice(s, from, to) == SubSeq(s, from, to)

containsOnly(s, chars) == \A i \in 1..Len(s) : s[i] \in chars

hasLeadingZeroes(s) == Len(s) > 1 /\ s[1] = "0"

RECURSIVE ParseUint(_)
ParseUint(s) ==
    IF Len(s) = 0 THEN 0
    ELSE ParseUint(SubSeq(s, 1, Len(s) - 1)) * 10 + DigitVal[s[Len(s)]]

\* one numeric component of a version: digits only, no leading zero, not empty
NumberOK(s) == containsOnly(s, Digits) /\ ~hasLeadingZeroes(s) /\ Len(s) > 0

NoVersion == [ok |-> FALSE, Major |-> 0, Minor |-> 0, Patch |-> 0]

\* semver.Parse (github.com/blang/semver): strict Major.Minor.Patch.  The
\* strings of the model carry no "-" or "+", so there is never a pre-release
\* or build part to split off the patch number.
Parse(s) ==
    LET d1 == IndexFrom(s, ".", 1)
        d2 == IF d1 = 0 THEN 0 ELSE IndexFrom(s, ".", d1 + 1)
    IN  IF Len(s) = 0 \/ d1 = 0 \/ d2 = 0 THEN NoVersion
        ELSE LET major == Slice(s, 1, d1 - 1)
                 minor == Slice(s, d1 + 1, d2 - 1)
                 patch == Slice(s, d2 + 1, Len(s))
             IN  IF NumberOK(major) /\ NumberOK(minor) /\ NumberOK(patch)
                 THEN [ok |-> TRUE, Major |-> ParseUint(major),
                       Minor |-> ParseUint(minor), Patch |-> ParseUint(patch)]
                 ELSE NoVersion

\* semver.Version.Compare: -1, 0 or 1
Compare(v, o) ==
    IF v.Major # o.Major THEN (IF v.Major > o.Major THEN 1 ELSE -1)
    ELSE IF v.Minor # o.Minor THEN (IF v.Minor > o.Minor THEN 1 ELSE -1)
    ELSE IF v.Patch # o.Patch THEN (IF v.Patch > o.Patch THEN 1 ELSE -1)
    ELSE 0

\* splitAndTrim of semver.ParseRange: the space-separated fields of s, in
\* order; a field of fewer than two characters is not kept
RECURSIVE splitAndTrim(_)
splitAndTrim(s) ==
    LET sp == IndexFrom(s, " ", 1)
    IN  IF sp = 0
        THEN (IF Len(s) > 1 THEN <<s>> ELSE <<>>)
        ELSE (IF sp > 2 THEN <<Slice(s, 1, sp - 1)>> ELSE <<>>)
             \o splitAndTrim(Slice(s, sp + 1, Len(s)))

OrToken == <<"|", "|">>

\* splitORParts of semver.ParseRange: the fields grouped between "||" fields;
\* a leading or trailing "||" (and no field at all) is an error
RECURSIVE orGroups(_)
orGroups(parts) ==
    LET I == {i \in 1..Len(parts) : parts[i] = OrToken}
    IN  IF I = {} THEN <<parts>>
        ELSE <<Slice(parts, 1, SetMin(I) - 1)>>
             \o orGroups(Slice(parts, SetMin(I) + 1, Len(parts)))

splitORParts(parts) ==
    IF Len(parts) = 0 \/ parts[1] = OrToken \/ parts[Len(parts)] = OrToken
    THEN [ok |-> FALSE, groups |-> <<>>]
    ELSE [ok |-> TRUE, groups |-> orGroups(parts)]

\* splitComparatorVersion: the operator is what precedes the first digit
splitComparatorVersion(s) ==
    LET i == IndexAny(s, Digits)
    IN  IF i = 0 THEN [ok |-> FALSE, op |-> EmptyStr, v |-> EmptyStr]
        ELSE [ok |-> TRUE, op |-> Slice(s, 1, i - 1), v |-> Slice(s, i, Len(s))]

Operators ==
    {EmptyStr, <<"=">>, <<"=", "=">>, <<"!", "=">>, <<"!">>,
     <<">">>, <<">", "=">>, <<"<">>, <<"<", "=">>}

\* buildVersionRange: a comparator is an operator of the table and a version
comparatorOK(s) ==
    LET c == splitComparatorVersion(s)
    IN  c.ok /\ c.op \in Operators /\ Parse(c.v).ok

\* the comparison each operator of the table stands for
compareOp(op, v, c) ==
    IF op \in {EmptyStr, <<"=">>, <<"=", "=">>} THEN Compare(v, c) = 0
    ELSE IF op \in {<<"!", "=">>, <<"!">>} THEN Compare(v, c) # 0
    ELSE IF op = <<">">> THEN Compare(v, c) = 1
    ELSE IF op = <<">", "=">> THEN Compare(v, c) >= 0
    ELSE IF op = <<"<">> THEN Compare(v, c) = -1
    ELSE Compare(v, c) <= 0

NoRange == [ok |-> FALSE, groups |-> <<>>]

\* semver.ParseRange: an OR of AND-groups of comparators, or an error
ParseRange(s) ==
    LET g == splitORParts(splitAndTrim(s))
    IN  IF ~g.ok THEN NoRange
        ELSE IF \A i \in 1..Len(g.groups) :
                   /\ Len(g.groups[i]) > 0
                   /\ \A j \in 1..Len(g.groups[i]) : comparatorOK(g.groups[i][j])
             THEN [ok |-> TRUE, groups |-> g.groups]
             ELSE NoRange

\* applying the semver.Range function r to the version v
InRange(r, v) ==
    \E i \in 1..Len(r.groups) :
        \A j \in 1..Len(r.groups[i]) :
            LET c == splitComparatorVersion(r.groups[i][j])
            IN  compareOp(c.op, v, Parse(c.v))


\* semver.NewVersion (github.com/Masterminds/semver), which
\* repo.ChartVersions.Less uses: one to three dot-separated numbers, the
\* missing ones taken as 0
RECURSIVE dotFields(_)
dotFields(s) ==
    LET d == IndexFrom(s, ".", 1)
    IN  IF d = 0 THEN <<s>>
        ELSE <<Slice(s, 1, d - 1)>> \o dotFields(Slice(s, d + 1, Len(s)))

NewVersion(s) ==
    LET f == dotFields(s)
        n(i) == IF i <= Len(f) THEN ParseUint(f[i]) ELSE 0
    IN  IF Len(f) <= 3 /\ \A i \in 1..Len(f) : Len(f[i]) > 0 /\ containsOnly(f[i], Digits)
        THEN [ok |-> TRUE, Major |-> n(1), Minor |-> n(2), Patch |-> n(3)]
        ELSE NoVersion

(***************************************************************************)
(* Bounds and the inputs drawn within them.                                *)
(***************************************************************************)
MaxCharts == 2      \* chart versions in an index handed to filterCharts
MaxDirs == 2        \* chart directories handed to GenerateHelmIndexFile

Names == {"app", "db"}

V100 == <<"1", ".", "0", ".", "0">>
V200 == <<"2", ".", "0", ".", "0">>
VBad == <<"b", "a", "d">>
GE150 == <<">", "=", "1", ".", "5", ".", "0">>
GE100 == <<">", "=", "1", ".", "0", ".", "0">>
GE200 == <<">", "=", "2", ".", "0", ".", "0">>

ChartVersionStrings == {V100, V200, VBad}
ChartTillerStrings == {EmptyStr, GE200}
KeywordSets == {{}, {"stable"}}

FilterVersionStrings == {EmptyStr, GE150, VBad}
FilterTillerStrings == {V100, V200, GE100}

\* repo.ChartVersion: the chart metadata the filters read
ChartVersion ==
    [Name : Names, Version : ChartVersionStrings,
     TillerVersion : ChartTillerStrings, Keywords : KeywordSets]

\* metav1.LabelSelector: requirements on keys, all of which must hold
LabelSelectors ==
    {Nil, Some({[key |-> "stable", operator |-> "Exists"]})}

\* PackageFilter.Annotations: a nil map, or a map that may hold "tillerVersion"
AnnotationMaps ==
    {Nil, Some(<<>>)} \cup
    {Some([k \in {"tillerVersion"} |-> t]) : t \in FilterTillerStrings}

\* appv1.PackageFilter
PackageFilter ==
    [Version : FilterVersionStrings, Annotations : AnnotationMaps,
     LabelSelector : LabelSelectors]

\* appv1.Subscription: the fields of sub.Spec that are read
Subscription ==
    [Package : {"", "app"},
     PackageFilter : {Nil} \cup {Some(f) : f \in PackageFilter}]


(***************************************************************************)
(* indexFile.Entries is a function from the chart names present to         *)
(* sequences of chart versions.                                            *)
(***************************************************************************)
NoEntries == <<>>

Range(f) == {f[x] : x \in DOMAIN f}

\* delete(indexFile.Entries, k) for every k outside keep
Restrict(e, keep) == [k \in DOMAIN e \cap keep |-> e[k]]

\* KeywordsChecker: no selector matches everything; otherwise the keywords
\* are label keys and every requirement of the selector must hold
KeywordsChecker(labelSelector, keywords) ==
    IF labelSelector = Nil THEN TRUE
    ELSE \A r \in Get(labelSelector) :
             IF r.operator = "Exists" THEN r.key \in keywords
             ELSE r.key \notin keywords

checkKeywords(s, chartVersion) ==
    LET labelSelector ==
            IF s.PackageFilter # Nil THEN Get(s.PackageFilter).LabelSelector
            ELSE Nil
    IN  KeywordsChecker(labelSelector, chartVersion.Keywords)

\* checkTillerVersion, were an empty chart tillerVersion a non-match
checkTillerVersionEmptyFails(s, chartVersion) ==
    IF /\ s.PackageFilter # Nil
       /\ Get(s.PackageFilter).Annotations # Nil
       /\ "tillerVersion" \in DOMAIN Get(Get(s.PackageFilter).Annotations)
    THEN LET filterTillerVersion ==
                 Get(Get(s.PackageFilter).Annotations)["tillerVersion"]
             tillerVersionVersion == ParseRange(chartVersion.TillerVersion)
         IN  IF chartVersion.TillerVersion = EmptyStr THEN FALSE
             ELSE IF ~tillerVersionVersion.ok THEN FALSE
             ELSE IF ~Parse(filterTillerVersion).ok THEN FALSE
             ELSE InRange(tillerVersionVersion, Parse(filterTillerVersion))
    ELSE TRUE

\* checkTillerVersion, were the filter parsed as the range and the chart's
\* tillerVersion as the version
checkTillerVersionSwapped(s, chartVersion) ==
    IF /\ s.PackageFilter # Nil
       /\ Get(s.PackageFilter).Annotations # Nil
       /\ "tillerVersion" \in DOMAIN Get(Get(s.PackageFilter).Annotations)
       /\ chartVersion.TillerVersion # EmptyStr
    THEN LET filterTillerVersion ==
                 ParseRange(Get(Get(s.PackageFilter).Annotations)["tillerVersion"])
             tillerVersionVersion == Parse(chartVersion.TillerVersion)
         IN  IF ~tillerVersionVersion.ok THEN FALSE
             ELSE IF ~filterTillerVersion.ok THEN FALSE
             ELSE InRange(filterTillerVersion, tillerVersionVersion)
    ELSE TRUE

checkTillerVersion(s, chartVersion) ==
    IF /\ s.PackageFilter # Nil
       /\ Get(s.PackageFilter).Annotations # Nil
       /\ "tillerVersion" \in DOMAIN Get(Get(s.PackageFilter).Annotations)
       /\ chartVersion.TillerVersion # EmptyStr
    THEN LET filterTillerVersion ==
                 Get(Get(s.PackageFilter).Annotations)["tillerVersion"]
             tillerVersionVersion == ParseRange(chartVersion.TillerVersion)
         IN  IF ~tillerVersionVersion.ok THEN FALSE
             ELSE IF ~Parse(filterTillerVersion).ok THEN FALSE
             ELSE InRange(tillerVersionVersion, Parse(filterTillerVersion))
    ELSE TRUE

\* checkVersion, were a chart version that does not parse let through
checkVersionParseErrorPasses(s, chartVersion) ==
    IF s.PackageFilter # Nil /\ Get(s.PackageFilter).Version # EmptyStr
    THEN LET versionVersion == Parse(chartVersion.Version)
             filterVersion == ParseRange(Get(s.PackageFilter).Version)
         IN  IF ~versionVersion.ok THEN TRUE
             ELSE IF ~filterVersion.ok THEN FALSE
             ELSE InRange(filterVersion, versionVersion)
    ELSE TRUE

checkVersion(s, chartVersion) ==
    IF s.PackageFilter # Nil /\ Get(s.PackageFilter).Version # EmptyStr
    THEN LET versionVersion == Parse(chartVersion.Version)
             filterVersion == ParseRange(Get(s.PackageFilter).Version)
         IN  IF ~versionVersion.ok THEN FALSE
             ELSE IF ~filterVersion.ok THEN FALSE
             ELSE InRange(filterVersion, versionVersion)
    ELSE TRUE

\* removeNoMatchingName, were the comparison k == sub.Spec.Package
removeNoMatchingNameInverted(s, e) ==
    IF s.Package # ""
    THEN [err |-> "nil", Entries |-> Restrict(e, DOMAIN e \ {s.Package})]
    ELSE [err |-> "subsciption.spec.name is missing", Entries |-> e]

\* the result of removeNoMatchingName: the error returned and the entries left
removeNoMatchingName(s, e) ==
    IF s.Package # ""
    THEN [err |-> "nil", Entries |-> Restrict(e, {s.Package})]
    ELSE [err |-> "subsciption.spec.name is missing", Entries |-> e]

\* the test of filterOnVersion's inner loop
keepChartVersion(s, chartVersion) ==
    /\ checkKeywords(s, chartVersion)
    /\ checkTillerVersion(s, chartVersion)
    /\ checkVersion(s, chartVersion)

\* filterOnVersion, were a bucket left with no version not deleted
filterOnVersionKeepsEmpty(s, e) ==
    LET Keep(chartVersion) == keepChartVersion(s, chartVersion)
    IN  [k \in DOMAIN e |-> SelectSeq(e[k], Keep)]

\* filterOnVersion, were the inner loop to start at the second chart version
filterOnVersionSkipsFirst(s, e) ==
    LET Keep(chartVersion) == keepChartVersion(s, chartVersion)
        newChartVersions ==
            [k \in DOMAIN e |->
                IF Len(e[k]) = 0 THEN <<>> ELSE SelectSeq(Tail(e[k]), Keep)]
    IN  Restrict(newChartVersions,
                 {k \in DOMAIN e : Len(newChartVersions[k]) > 0})

RECURSIVE Reverse(_)
Reverse(b) == IF Len(b) = 0 THEN <<>> ELSE Append(Reverse(Tail(b)), Head(b))

\* filterOnVersion, were each kept chart version put in front of the others
filterOnVersionPrepends(s, e) ==
    LET Keep(chartVersion) == keepChartVersion(s, chartVersion)
        newChartVersions == [k \in DOMAIN e |-> Reverse(SelectSeq(e[k], Keep))]
    IN  Restrict(newChartVersions,
                 {k \in DOMAIN e : Len(newChartVersions[k]) > 0})

filterOnVersion(s, e) ==
    LET Keep(chartVersion) == keepChartVersion(s, chartVersion)
        newChartVersions == [k \in DOMAIN e |-> SelectSeq(e[k], Keep)]
    IN  Restrict(newChartVersions,
                 {k \in DOMAIN e : Len(newChartVersions[k]) > 0})

\* filterCharts drops the error of removeNoMatchingName and goes on
filterCharts(s, e) == filterOnVersion(s, removeNoMatchingName(s, e).Entries)

\* IndexFile.Add: append under the name the chart metadata carries
Add(e, md) ==
    IF md.Name \in DOMAIN e
    THEN [e EXCEPT ![md.Name] = Append(@, md)]
    ELSE [k \in DOMAIN e \cup {md.Name} |-> IF k = md.Name THEN <<md>> ELSE e[k]]

\* repo.ChartVersions.Less: a version that fails to parse is pushed back
Less(a, b) ==
    IF ~NewVersion(a.Version).ok THEN TRUE
    ELSE IF ~NewVersion(b.Version).ok THEN FALSE
    ELSE Compare(NewVersion(a.Version), NewVersion(b.Version)) = -1

\* the arrangements of one bucket
Arrangements(b) ==
    {[i \in 1..Len(b) |-> b[p[i]]] : p \in Permutations(1..Len(b))}

\* sort.Sort(sort.Reverse(versions)): an arrangement in which no element is
\* Less than one that follows it.  sort.Sort is not stable, and when Less is
\* not an ordering (a version that does not parse) any arrangement may come out.
SortedBuckets(b) ==
    LET ordered == {a \in Arrangements(b) :
                       \A i, j \in 1..Len(a) : i < j => ~Less(a[i], a[j])}
    IN  IF \A i \in 1..Len(b) : NewVersion(b[i].Version).ok
        THEN ordered ELSE Arrangements(b)

\* the outcomes of IndexFile.SortEntries
SortEntries(e) ==
    {f \in [DOMAIN e -> UNION {SortedBuckets(e[k]) : k \in DOMAIN e}] :
        \A k \in DOMAIN e : f[k] \in SortedBuckets(e[k])}


(***************************************************************************)
(* The indexes handed to filterCharts directly: at most MaxCharts chart    *)
(* versions in all, each filed under its own name; a name may be absent,   *)
(* or present with no chart version.                                       *)
(***************************************************************************)
ChartsNamed(k) == {c \in ChartVersion : c.Name = k}

OptBuckets(k, n) ==
    IF n < 0 THEN {Nil} ELSE {Some(b) : b \in [1..n -> ChartsNamed(k)]}

MkIndex(a, b) ==
    [k \in (IF a = Nil THEN {} ELSE {"app"}) \cup (IF b = Nil THEN {} ELSE {"db"})
        |-> IF k = "app" THEN Get(a) ELSE Get(b)]

Lengths ==
    {p \in (-1..MaxCharts) \X (-1..MaxCharts) :
        (IF p[1] < 0 THEN 0 ELSE p[1]) + (IF p[2] < 0 THEN 0 ELSE p[2]) <= MaxCharts}

Indexes ==
    UNION {{MkIndex(a, b) : a \in OptBuckets("app", p[1]), b \in OptBuckets("db", p[2])} :
              p \in Lengths}

\* what LoadChartfile yields for a chart directory: Nil for an error, or the
\* metadata of a Chart.yaml (here one that names no tillerVersion and no keyword)
Manifests ==
    {Nil} \cup {Some(c) : c \in {x \in ChartVersion :
                                    x.TillerVersion = EmptyStr /\ x.Keywords = {}}}

(***************************************************************************)
(* The state machine.  A run is either a call of GenerateHelmIndexFile     *)
(* (pc "load" -> "filter" -> "returned"), or two successive calls of      *)
(* filterCharts on a given index (pc "call" -> "again" -> "idle").         *)
(***************************************************************************)
InitBuild ==
    /\ pc = "load"
    /\ sub \in Subscription
    /\ \E n \in 0..MaxDirs :
          /\ chartDirs = 1..n
          /\ manifest \in [1..n -> Manifests]
    /\ entries = NoEntries          \* repo.NewIndexFile()
    /\ entries0 = NoEntries
    /\ err = "none"
    /\ nameErr = "none"
    /\ loaded = 0
    /\ sorted = 0
    /\ runs = 0

InitFilter ==
    /\ pc = "call"
    /\ sub \in Subscription
    /\ chartDirs = {}
    /\ manifest = <<>>
    /\ entries \in Indexes
    /\ entries0 = entries
    /\ err = "none"
    /\ nameErr = "none"
    /\ loaded = 0
    /\ sorted = 0
    /\ runs = 0

Init == InitBuild \/ InitFilter

\* LoadChartfile, were a load error logged and the loop carried on
LoadChartfileGoesOn(d) ==
    /\ pc = "load"
    /\ d \in chartDirs
    /\ chartDirs' = chartDirs \ {d}
    /\ loaded' = loaded + 1
    /\ IF manifest[d] = Nil
       THEN /\ err' = "load error"
            /\ entries' = entries
       ELSE /\ entries' = Add(entries, Get(manifest[d]))
            /\ err' = err
    /\ UNCHANGED <<sub, manifest, entries0, nameErr, sorted, runs, pc>>

\* one iteration of the loop over chartDirs, in the order the map yields
LoadChartfile(d) ==
    /\ pc = "load"
    /\ d \in chartDirs
    /\ chartDirs' = chartDirs \ {d}
    /\ loaded' = loaded + 1
    /\ IF manifest[d] = Nil
       THEN /\ err' = "load error"
            /\ pc' = "returned"
            /\ entries' = entries
       ELSE /\ entries' = Add(entries, Get(manifest[d]))
            /\ UNCHANGED <<err, pc>>
    /\ UNCHANGED <<sub, manifest, entries0, nameErr, sorted, runs>>

\* indexFile.SortEntries(), once the loop has run out of directories
SortStep ==
    /\ pc = "load"
    /\ chartDirs = {}
    /\ entries' \in SortEntries(entries)
    /\ sorted' = sorted + 1
    /\ pc' = "filter"
    /\ UNCHANGED <<sub, chartDirs, manifest, entries0, err, nameErr, loaded, runs>>

\* filterCharts(sub, indexFile); return indexFile, nil
FilterStep ==
    /\ pc = "filter"
    /\ entries0' = entries
    /\ nameErr' = removeNoMatchingName(sub, entries).err
    /\ entries' = filterCharts(sub, entries)
    /\ runs' = runs + 1
    /\ err' = "nil"
    /\ pc' = "returned"
    /\ UNCHANGED <<sub, chartDirs, manifest, loaded, sorted>>

\* a call of filterCharts on the index as it stands
FilterCharts ==
    /\ pc \in {"call", "again"}
    /\ nameErr' = removeNoMatchingName(sub, entries).err
    /\ entries' = filterCharts(sub, entries)
    /\ runs' = runs + 1
    /\ pc' = IF pc = "call" THEN "again" ELSE "idle"
    /\ UNCHANGED <<sub, chartDirs, manifest, entries0, err, loaded, sorted>>

Next ==
    \/ \E d \in chartDirs : LoadChartfile(d)
    \/ SortStep
    \/ FilterStep
    \/ FilterCharts

Spec == Init /\ [][Next]_vars


(***************************************************************************)
(* Vocabulary of the properties.                                           *)
(***************************************************************************)
\* the policy sets a version range
VersionFilterSet ==
    sub.PackageFilter # Nil /\ Get(sub.PackageFilter).Version # EmptyStr

VersionFilter == Get(sub.PackageFilter).Version

\* the policy sets a tillerVersion filter
TillerFilterSet ==
    /\ sub.PackageFilter # Nil
    /\ Get(sub.PackageFilter).Annotations # Nil
    /\ "tillerVersion" \in DOMAIN Get(Get(sub.PackageFilter).Annotations)

TillerFilter == Get(Get(sub.PackageFilter).Annotations)["tillerVersion"]

\* the policy sets a keyword selector
SelectorSet ==
    sub.PackageFilter # Nil /\ Get(sub.PackageFilter).LabelSelector # Nil

\* rangeExpr parses as a range, candidate parses as an exact version, and
\* the version lies in the range
Matches(rangeExpr, candidate) ==
    /\ ParseRange(rangeExpr).ok
    /\ Parse(candidate).ok
    /\ InRange(ParseRange(rangeExpr), Parse(candidate))

\* the buckets of the index handed to filterCharts that the name step leaves
NameKept == DOMAIN removeNoMatchingName(sub, entries0).Entries

\* chart version c of bucket k is still in the index
Survives(k, c) == k \in DOMAIN entries /\ c \in Range(entries[k])

\* a is b with some elements left out
RECURSIVE IsSubSeq(_, _)
IsSubSeq(a, b) ==
    IF Len(a) = 0 THEN TRUE
    ELSE IF Len(b) = 0 THEN FALSE
    ELSE IF Head(a) = Head(b) THEN IsSubSeq(Tail(a), Tail(b))
    ELSE IsSubSeq(a, Tail(b))

\* bucket b is in descending-version order
Descending(b) == \A i, j \in 1..Len(b) : i < j => ~Less(b[i], b[j])

\* no name of the index is filed with an empty list
AllBucketsNonEmpty(e) == \A k \in DOMAIN e : Len(e[k]) > 0

RECURSIVE TotalLen(_, _)
TotalLen(e, S) ==
    IF S = {} THEN 0
    ELSE LET k == CHOOSE x \in S : TRUE
         IN  Len(e[k]) + TotalLen(e, S \ {k})

\* the chart directories the build has visited, and those that failed to load
Visited == DOMAIN manifest \ chartDirs
Failed == {d \in Visited : manifest[d] = Nil}

(***************************************************************************)
(* C1                                                                      *)
(***************************************************************************)
\* C1: whenever the package name is empty, the filter pipeline fails with a
\* missing-name error that reaches the caller of GenerateHelmIndexFile: the
\* build is never reported as a success with a nil error.
C1_MissingNameReported ==
    (runs >= 1 /\ sub.Package = "") =>
        /\ nameErr # "nil"
        /\ pc = "returned" => err # "nil"

(***************************************************************************)
(* C2                                                                      *)
(***************************************************************************)
\* C2: with an empty package name the index after the filter pipeline is
\* the index before it: no bucket deleted, no version removed (stated for
\* the indexes a build produces, in which no bucket is empty).
C2_EmptyNameLeavesIndex ==
    (runs >= 1 /\ sub.Package = "" /\ AllBucketsNonEmpty(entries0)) =>
        entries = entries0


(***************************************************************************)
(* C3                                                                      *)
(***************************************************************************)
\* C3 as stated: for every chart version the name step leaves, a tillerVersion
\* filter together with an empty chart tillerVersion makes checkTillerVersion
\* false and the version is dropped; with no tillerVersion filter the check
\* is true.
C3_EmptyTillerIsNonMatch ==
    runs = 1 =>
        \A k \in NameKept : \A c \in Range(entries0[k]) :
            /\ (TillerFilterSet /\ c.TillerVersion = EmptyStr) =>
                   (~checkTillerVersion(sub, c) /\ ~Survives(k, c))
            /\ ~TillerFilterSet => checkTillerVersion(sub, c)

\* C3 amended: whether or not a tillerVersion filter is set, a chart version
\* with an empty tillerVersion passes checkTillerVersion, and so does every
\* chart version when no filter is set; such a version stays in its bucket
\* exactly when the keyword check and the version check pass.
C3_EmptyTillerPasses ==
    runs = 1 =>
        \A k \in NameKept : \A c \in Range(entries0[k]) :
            (c.TillerVersion = EmptyStr \/ ~TillerFilterSet) =>
                /\ checkTillerVersion(sub, c)
                /\ Survives(k, c) <=> (checkKeywords(sub, c) /\ checkVersion(sub, c))

\* a chart version without tillerVersion got through a tillerVersion filter
C3_Witness ==
    /\ runs = 1
    /\ TillerFilterSet
    /\ \E k \in NameKept : \E c \in Range(entries0[k]) :
           c.TillerVersion = EmptyStr /\ Survives(k, c)

(***************************************************************************)
(* C4                                                                      *)
(***************************************************************************)
\* C4 as stated: with a tillerVersion filter set and a non-empty chart
\* tillerVersion, the chart version passes iff the chart's tillerVersion, as
\* an exact version, lies in the filter, as a range.
C4_FilterIsRange ==
    runs = 1 =>
        \A k \in NameKept : \A c \in Range(entries0[k]) :
            (TillerFilterSet /\ c.TillerVersion # EmptyStr) =>
                /\ checkTillerVersion(sub, c) <=> Matches(TillerFilter, c.TillerVersion)
                /\ Survives(k, c) <=>
                       /\ checkKeywords(sub, c)
                       /\ checkVersion(sub, c)
                       /\ Matches(TillerFilter, c.TillerVersion)

\* C4 amended: with a tillerVersion filter set and a non-empty chart
\* tillerVersion, the chart version passes iff the filter, as an exact
\* version, lies in the chart's tillerVersion, as a range.
C4_ChartIsRange ==
    runs = 1 =>
        \A k \in NameKept : \A c \in Range(entries0[k]) :
            (TillerFilterSet /\ c.TillerVersion # EmptyStr) =>
                /\ checkTillerVersion(sub, c) <=> Matches(c.TillerVersion, TillerFilter)
                /\ Survives(k, c) <=>
                       /\ checkKeywords(sub, c)
                       /\ checkVersion(sub, c)
                       /\ Matches(c.TillerVersion, TillerFilter)

\* a chart version whose tillerVersion is a range and no exact version got
\* through a tillerVersion filter
C4_Witness ==
    /\ runs = 1
    /\ TillerFilterSet
    /\ \E k \in NameKept : \E c \in Range(entries0[k]) :
           /\ c.TillerVersion # EmptyStr
           /\ Survives(k, c)
           /\ ~Parse(c.TillerVersion).ok

(***************************************************************************)
(* C5                                                                      *)
(***************************************************************************)
\* C5: on an index without empty buckets, a policy with a package name and
\* no version range, no tillerVersion filter and no keyword selector leaves
\* exactly the bucket of that name, if there was one, with the same versions
\* in the same order.
C5_NameOnly ==
    (/\ runs >= 1
     /\ sub.Package # ""
     /\ ~VersionFilterSet /\ ~TillerFilterSet /\ ~SelectorSet
     /\ AllBucketsNonEmpty(entries0)) =>
        entries = Restrict(entries0, {sub.Package})

\* a name-only policy deleted one bucket and left the other whole
C5_Witness ==
    /\ runs >= 1
    /\ sub.Package # ""
    /\ ~VersionFilterSet /\ ~TillerFilterSet /\ ~SelectorSet
    /\ AllBucketsNonEmpty(entries0)
    /\ DOMAIN entries0 = Names
    /\ DOMAIN entries = {sub.Package}
    /\ sub.PackageFilter # Nil

(***************************************************************************)
(* C6                                                                      *)
(***************************************************************************)
\* C6: after the filter pipeline every name in the index has a non-empty
\* list of versions, and a build whose index was filtered down to no bucket
\* at all returns a nil error.
C6_NoEmptyBucket ==
    /\ runs >= 1 => AllBucketsNonEmpty(entries)
    /\ (runs >= 1 /\ pc = "returned") => err = "nil"

\* a bucket whose versions all failed and a bucket that was empty are both
\* gone, and nothing is left
C6_Witness ==
    /\ runs >= 1
    /\ DOMAIN entries = {}
    /\ sub.Package # ""
    /\ \E k \in NameKept : Len(entries0[k]) > 0
    /\ \E k \in DOMAIN entries0 : Len(entries0[k]) = 0

\* a build returned an index filtered down to no bucket
C6_WitnessBuild ==
    /\ pc = "returned"
    /\ runs >= 1
    /\ DOMAIN entries = {}
    /\ \E k \in NameKept : Len(entries0[k]) > 0

(***************************************************************************)
(* C7                                                                      *)
(***************************************************************************)
\* C7: a second run of filterCharts with the same policy on the index the
\* first run produced changes nothing.
C7_Idempotent == [][pc = "again" => entries' = entries]_vars

\* the first run removed something and the second run has been made
C7_Witness ==
    /\ pc = "idle"
    /\ runs = 2
    /\ entries # entries0
    /\ DOMAIN entries # {}


(***************************************************************************)
(* C8                                                                      *)
(***************************************************************************)
\* C8: with a version range set, a chart version passes checkVersion iff its
\* version parses, the range parses and the version lies in the range; one
\* that does not is dropped and the others of its bucket are still judged,
\* each on its own.  With no version range set every chart version passes,
\* a malformed one too.
C8_VersionCheck ==
    runs = 1 =>
        \A k \in NameKept : \A c \in Range(entries0[k]) :
            LET expected == IF VersionFilterSet
                            THEN Matches(VersionFilter, c.Version)
                            ELSE TRUE
            IN  /\ checkVersion(sub, c) <=> expected
                /\ Survives(k, c) <=>
                       /\ checkKeywords(sub, c)
                       /\ checkTillerVersion(sub, c)
                       /\ expected

\* under a version range, a chart version that does not parse was dropped
\* and the one filed after it in the same bucket was kept
C8_Witness ==
    /\ runs = 1
    /\ VersionFilterSet
    /\ \E k \in NameKept :
           /\ Len(entries0[k]) >= 2
           /\ ~Parse(entries0[k][1].Version).ok
           /\ ~Survives(k, entries0[k][1])
           /\ Survives(k, entries0[k][2])

\* with no version range, a chart version that does not parse was kept
C8_WitnessUnset ==
    /\ runs = 1
    /\ ~VersionFilterSet
    /\ \E k \in NameKept : \E c \in Range(entries0[k]) :
           ~Parse(c.Version).ok /\ Survives(k, c)

(***************************************************************************)
(* C9                                                                      *)
(***************************************************************************)
\* C9: the filtered index is a sub-index of the original: its names are
\* names of the original, each bucket is the original bucket with some
\* chart versions left out (none changed, added, repeated or moved), and a
\* bucket that was in descending-version order still is.
C9_SubIndex ==
    runs >= 1 =>
        /\ DOMAIN entries \subseteq DOMAIN entries0
        /\ \A k \in DOMAIN entries :
               /\ IsSubSeq(entries[k], entries0[k])
               /\ Descending(entries0[k]) => Descending(entries[k])

\* two different chart versions of a descending bucket both got through a
\* version range
C9_Witness ==
    /\ runs >= 1
    /\ VersionFilterSet
    /\ \E k \in DOMAIN entries :
           /\ Len(entries[k]) >= 2
           /\ entries[k][1] # entries[k][2]
           /\ Descending(entries0[k])

(***************************************************************************)
(* C10                                                                     *)
(***************************************************************************)
\* C10: in GenerateHelmIndexFile the first chart directory whose Chart.yaml
\* fails to load ends the build with the load error: no other directory is
\* loaded or added after it, and neither SortEntries nor filterCharts is
\* run.  When every directory loads, the build returns nil after one
\* SortEntries over all the charts and then one filterCharts.
C10_LoadFailureAborts ==
    /\ Failed # {} =>
           /\ pc = "returned"
           /\ err = "load error"
           /\ Cardinality(Failed) = 1
           /\ loaded = Cardinality(Visited)
           /\ TotalLen(entries, DOMAIN entries) = Cardinality(Visited) - 1
           /\ sorted = 0
           /\ runs = 0
    /\ (pc = "returned" /\ Failed = {}) =>
           /\ err = "nil"
           /\ chartDirs = {}
           /\ loaded = Cardinality(DOMAIN manifest)
           /\ sorted = 1
           /\ runs = 1
           /\ TotalLen(entries0, DOMAIN entries0) = Cardinality(DOMAIN manifest)
           /\ \A k \in DOMAIN entries0 : entries0[k] \in SortedBuckets(entries0[k])
           /\ entries = filterCharts(sub, entries0)
    /\ err = "load error" => Failed # {}

\* the first directory visited failed to load and another was never visited
C10_Witness ==
    /\ pc = "returned"
    /\ err = "load error"
    /\ loaded = 1
    /\ chartDirs # {}
    /\ \E d \in chartDirs : manifest[d] # Nil

\* every directory loaded, the charts of one name came out sorted and filtered
C10_WitnessSuccess ==
    /\ pc = "returned"
    /\ err = "nil"
    /\ loaded = 2
    /\ \E k \in DOMAIN entries : Len(entries[k]) = 2

====
